---- MODULE Spec2Model ----
(***************************************************************************)
(* A model of the decision pipeline (BusinessRuleAgent.analyze_scenario),  *)
(* of the execution engine (BusinessRuleExecutionEngine) with its default  *)
(* executor, of the host service (AgenticSystemService) with its worker    *)
(* pool, and of the rule catalog (BusinessRulesManager) of the agentic     *)
(* business-rules system.                                                  *)
(*                                                                         *)
(* Conventions.                                                            *)
(*  - A Python dict is a TLA+ record; a missing key is a missing field     *)
(*    (k \notin DOMAIN d).                                                 *)
(*  - An Optional[int] is a sequence of length <= 1: <<>> is None and      *)
(*    <<n>> is the integer n.                                              *)
(*  - Confidences and scores are percentages (0.7 is 70).                  *)
(*  - A Python exception inside an expression is the value "raise" of the  *)
(*    operator that models the expression.                                 *)
(***************************************************************************)
EXTENDS Integers, Sequences, FiniteSets, TLC

VARIABLES
    \* ---- BusinessRuleAgent (business_rule_agent.py) ----
    state,              \* self.state, an AgentState
    current_scenario,   \* self.current_scenario
    iteration_count,    \* self.iteration_count
    decision_history,   \* self.decision_history
    \* ---- one analyze_scenario invocation ----
    apc,                \* position of the invocation in analyze_scenario
    relevant_rules,     \* local: what _query_relevant_rules returned
    analysis_result,    \* local: what _analyze_with_llm returned
    executable_rules,   \* local: what _determine_executable_rules returned
    explanation,        \* local: what _generate_explanation returned
    call_result,        \* what the caller of analyze_scenario observes
    \* ---- BusinessRuleExecutionEngine (engine.py) ----
    now,                \* the wall clock, in whole seconds
    plans,              \* the ExecutionPlan objects, by identity (index)
    execution_history,  \* self.execution_history: references to plans
    \* ---- AgenticSystemService (api/services.py) and its callers ----
    initialized,        \* self.initialized
    svc,                \* the service operation in progress and its outcome
    query,              \* the last read-only call and what it returned
    \* ---- BusinessRulesManager (business_rules/manager.py) ----
    manager,            \* its fields rules, _rules_by_id, _rules_by_domain
    rule_files,         \* the rule definitions the files of the directory hold
    \* ---- the host's worker pool ----
    parked              \* the locals of the analyze_scenario invocation that
                        \* is not running at the moment

agentVars  == <<state, current_scenario, iteration_count, decision_history,
                apc, relevant_rules, analysis_result, executable_rules,
                explanation, call_result>>
engineVars == <<now, plans, execution_history>>
serviceVars == <<initialized, svc, query>>
hostVars   == <<manager, rule_files, parked>>
vars       == <<state, current_scenario, iteration_count, decision_history,
                apc, relevant_rules, analysis_result, executable_rules,
                explanation, call_result, now, plans, execution_history,
                initialized, svc, query, manager, rule_files, parked>>

(***************************************************************************)
(* Bounds of the model.                                                    *)
(***************************************************************************)
MaxRules == 2       \* rules in one plan
MaxPlans == 2       \* plans created on one engine
MaxClock == 1       \* seconds the clock may advance
MaxRefs  == 2       \* entries in one reasoning-provider answer
MaxRuns == 2        \* execute_plan calls on one plan
MaxExecutions == 3  \* execute_plan calls on one engine
MaxQueries == 2     \* get_execution_summary calls in one run
MaxFiles == 2       \* rule files in the rules directory
MaxLoads == 2       \* load_rules calls on one manager

(***************************************************************************)
(* Python helpers.                                                         *)
(***************************************************************************)
None    == <<>>
Some(n) == <<n>>

\* dict.get(k, default)
Get(d, k, default) == IF k \in DOMAIN d THEN d[k] ELSE default

\* All sequences over S of length at most n.
SeqUpTo(S, n) == UNION {[1..k -> S] : k \in 0..n}

(***************************************************************************)
(* The execution engine: engine.py.                                        *)
(***************************************************************************)
\* ExecutionStatus
PENDING   == "pending"
RUNNING   == "running"
COMPLETED == "completed"
FAILED    == "failed"
SKIPPED   == "skipped"

\* A rule at or above this priority is critical (engine.py, lines 372, 379).
CriticalPriority == 3

\* A rule dict with all three keys the engine reads.
Rule(id, name, prio) == [id |-> id, name |-> name, priority |-> prio]

\* The rule dicts handed to the engine in the single-plan specification:
\* well-formed rules of both ids around the critical priority, a rule
\* without the key "priority", a rule whose priority is None (the API's
\* RuleExecution.priority is Optional[int]), a rule without a name, and a
\* rule that names an action of the default registry.
RichRules ==
    {Rule(i, "n", Some(p)) : i \in {"a", "b"}, p \in {1, 3}}
        \cup {Rule("a", "n", Some(2)), Rule("b", "n", None),
              [id |-> "a", name |-> "n"], [id |-> "b", priority |-> Some(3)],
              [id |-> "a", name |-> "n", priority |-> Some(1),
               action |-> "approve_basic_review"]}

\* The rule dicts of the multi-plan specification.
SimpleRules == {Rule("a", "n", Some(3))}

\* What an ActionExecutor may do on one rule: validate_parameters returns
\* true or false or raises; execute (reached only after "true") returns a
\* mapping with success true, or with success false and with or without an
\* error text, or raises.
ExecutorBehaviours ==
    {[validate |-> "false", execute |-> "unused"],
     [validate |-> "raise", execute |-> "unused"]}
        \cup {[validate |-> "true", execute |-> e] :
                e \in {"success", "failure", "silent_failure", "raise"}}

\* The executor of the multi-plan specification validates every rule and
\* does not raise.
SimpleBehaviours ==
    {[validate |-> "true", execute |-> e] : e \in {"success", "failure"}}

\* The mapping ActionExecutor.execute returns.
ExecutionOutput(e) ==
    IF e = "success"
    THEN [success |-> TRUE, action_taken |-> "action_taken"]
    ELSE IF e = "failure"
    THEN [success |-> FALSE, error |-> "executor error"]
    ELSE [success |-> FALSE]

\* DefaultActionExecutor.supported_actions, in the order of the registry.
SupportedActions ==
    <<"approve_basic_review", "require_manual_review", "instant_approve",
      "require_collateral", "deny_access",
      "generate_low_stock_alert", "emergency_reorder", "block_reorder",
      "increase_reorder_quantity", "mark_for_clearance",
      "schedule_data_deletion", "request_consent_renewal",
      "execute_data_deletion", "enforce_encryption",
      "route_to_senior_agent", "escalate_to_technical_team",
      "route_to_global_team", "route_to_billing_specialist">>

\* action in self.supported_actions
IsSupported(action) ==
    \E i \in DOMAIN SupportedActions : SupportedActions[i] = action

\* The "action_taken" each handler of the registry reports.
ActionTaken ==
    [approve_basic_review |-> "loan_approved_for_basic_review",
     require_manual_review |-> "manual_review_required",
     instant_approve |-> "instant_approval",
     require_collateral |-> "collateral_required",
     deny_access |-> "access_denied",
     generate_low_stock_alert |-> "low_stock_alert_generated",
     emergency_reorder |-> "emergency_reorder_initiated",
     block_reorder |-> "reorder_blocked",
     increase_reorder_quantity |-> "reorder_quantity_increased",
     mark_for_clearance |-> "marked_for_clearance",
     schedule_data_deletion |-> "data_deletion_scheduled",
     request_consent_renewal |-> "consent_renewal_requested",
     execute_data_deletion |-> "data_deleted",
     enforce_encryption |-> "encryption_enforced",
     route_to_senior_agent |-> "routed_to_senior_agent",
     escalate_to_technical_team |-> "escalated_to_technical_team",
     route_to_global_team |-> "routed_to_global_team",
     route_to_billing_specialist |-> "routed_to_billing_specialist"]

\* The handlers that call context.get(...) and parameters.get(...).
ReadsContext ==
    {"instant_approve", "generate_low_stock_alert", "emergency_reorder",
     "block_reorder", "increase_reorder_quantity", "mark_for_clearance",
     "schedule_data_deletion", "request_consent_renewal",
     "route_to_senior_agent", "escalate_to_technical_team",
     "route_to_billing_specialist"}
ReadsParameters ==
    {"deny_access", "increase_reorder_quantity", "enforce_encryption"}

\* The values a caller may pass as parameters or as context: a mapping
\* (empty or not), None, a list.
ArgumentValues == {"dict_empty", "dict_full", "none", "list"}

\* isinstance(v, dict)
IsDict(v) == v \in {"dict_empty", "dict_full"}

\* A handler raises when it calls .get on a value that is not a mapping.
HandlerRaises(action, parameters, context) ==
    \/ action \in ReadsContext /\ ~ IsDict(context)
    \/ action \in ReadsParameters /\ ~ IsDict(parameters)

\* A variant of DefaultExecute that looks the handler up without testing
\* the registry first.
DefaultExecuteByLookup(action, parameters, context, t) ==
    IF ~ IsSupported(action) \/ HandlerRaises(action, parameters, context)
    THEN [success |-> FALSE, error |-> "Error executing " \o action,
          traceback |-> "traceback"]
    ELSE [success |-> TRUE, action_taken |-> ActionTaken[action],
          timestamp |-> t]

\* DefaultActionExecutor.execute (lines 107-123).  Of a handler's mapping
\* the fields success, action_taken and timestamp are kept.
DefaultExecute(action, parameters, context, t) ==
    IF ~ IsSupported(action)
    THEN [success |-> FALSE, error |-> "Unsupported action: " \o action,
          supported_actions |-> SupportedActions]
    ELSE IF HandlerRaises(action, parameters, context)
    THEN [success |-> FALSE, error |-> "Error executing " \o action,
          traceback |-> "traceback"]
    ELSE [success |-> TRUE, action_taken |-> ActionTaken[action],
          timestamp |-> t]

\* What the DefaultActionExecutor does on one rule of a plan whose context
\* is the given one: rule["action"] is read first (a KeyError when the key
\* is missing), validate_parameters is isinstance(parameters, dict), and
\* execute returns the mapping above.
DefaultBehaviour(rule, context, t) ==
    IF "action" \notin DOMAIN rule
    THEN [validate |-> "raise", execute |-> "unused"]
    ELSE IF ~ IsDict(Get(rule, "parameters", "dict_empty"))
    THEN [validate |-> "false", execute |-> "unused"]
    ELSE [validate |-> "true", execute |-> "default",
          output |-> DefaultExecute(rule.action,
                                    Get(rule, "parameters", "dict_empty"),
                                    context, t)]

\* ExecutionResult(rule_id, rule_name, status=RUNNING, start_time=now()).
\* idx is the position of the rule in plan.rules (a history field).
NewResult(rule, idx, t) ==
    [rule_id |-> rule.id, rule_name |-> rule.name, status |-> RUNNING,
     start_time |-> Some(t), end_time |-> None, output |-> <<>>,
     error_message |-> None, idx |-> idx]

\* A variant of InterpretOutput that takes a mapping without an error text
\* for a success.
InterpretOutputByError(r0, out) ==
    IF "error" \notin DOMAIN out
    THEN [r0 EXCEPT !.status = COMPLETED, !.output = out]
    ELSE [r0 EXCEPT !.status = FAILED, !.output = out,
                    !.error_message = Some(out.error)]

\* Lines 423-433: the result for the mapping execute returned.
InterpretOutput(r0, out) ==
    IF Get(out, "success", FALSE)
    THEN [r0 EXCEPT !.status = COMPLETED, !.output = out]
    ELSE [r0 EXCEPT !.status = FAILED, !.output = out,
                    !.error_message = Some(Get(out, "error", "Unknown error"))]

\* A variant of ExecuteSingleRule whose return after a failed validation
\* leaves the function without the finally clause.
ExecuteSingleRuleEarlyReturn(rule, idx, b, t) ==
    IF "id" \notin DOMAIN rule \/ "name" \notin DOMAIN rule
    THEN [raised |-> TRUE, text |-> "KeyError", calls |-> <<>>]
    ELSE LET r0 == NewResult(rule, idx, t)
             done(r) == [r EXCEPT !.end_time = Some(t)]
         IN  IF b.validate = "raise"
             THEN [raised |-> FALSE, calls |-> <<[op |-> "validate", rule |-> idx, outcome |-> "raise"]>>,
                   result |-> done([r0 EXCEPT !.status = FAILED,
                                   !.error_message = Some("validate raised")])]
             ELSE IF b.validate = "false"
             THEN [raised |-> FALSE, calls |-> <<[op |-> "validate", rule |-> idx, outcome |-> "false"]>>,
                   result |-> [r0 EXCEPT !.status = FAILED,
                               !.error_message = Some("Parameter validation failed")]]
             ELSE LET out  == Get(b, "output", ExecutionOutput(b.execute))
                      both == <<[op |-> "validate", rule |-> idx, outcome |-> "true"],
                                [op |-> "execute", rule |-> idx, outcome |-> b.execute,
                                 output |-> IF b.execute = "raise" THEN <<>> ELSE out]>>
                  IN  IF b.execute = "raise"
                      THEN [raised |-> FALSE, calls |-> both,
                            result |-> done([r0 EXCEPT !.status = FAILED,
                                            !.error_message = Some("execute raised")])]
                      ELSE [raised |-> FALSE, calls |-> both,
                            result |-> done(InterpretOutput(r0, out))]

\* _execute_single_rule: [raised |-> TRUE] when the exception leaves the
\* function (rule["id"], rule["name"] are read before the try), else the
\* result and the executor calls made.  The behaviour b of the executor
\* either names the mapping execute returns or carries it (b.output).
ExecuteSingleRule(rule, idx, b, t) ==
    IF "id" \notin DOMAIN rule \/ "name" \notin DOMAIN rule
    THEN [raised |-> TRUE, text |-> "KeyError", calls |-> <<>>]
    ELSE LET r0 == NewResult(rule, idx, t)
             done(r) == [r EXCEPT !.end_time = Some(t)]     \* finally
         IN  IF b.validate = "raise"
             THEN [raised |-> FALSE, calls |-> <<[op |-> "validate", rule |-> idx, outcome |-> "raise"]>>,
                   result |-> done([r0 EXCEPT !.status = FAILED,
                                   !.error_message = Some("validate raised")])]
             ELSE IF b.validate = "false"
             THEN [raised |-> FALSE, calls |-> <<[op |-> "validate", rule |-> idx, outcome |-> "false"]>>,
                   result |-> done([r0 EXCEPT !.status = FAILED,
                                   !.error_message = Some("Parameter validation failed")])]
             ELSE LET out  == Get(b, "output", ExecutionOutput(b.execute))
                      both == <<[op |-> "validate", rule |-> idx, outcome |-> "true"],
                                [op |-> "execute", rule |-> idx, outcome |-> b.execute,
                                 output |-> IF b.execute = "raise" THEN <<>> ELSE out]>>
                  IN  IF b.execute = "raise"
                      THEN [raised |-> FALSE, calls |-> both,
                            result |-> done([r0 EXCEPT !.status = FAILED,
                                            !.error_message = Some("execute raised")])]
                      ELSE [raised |-> FALSE, calls |-> both,
                            result |-> done(InterpretOutput(r0, out))]

\* rule.get("priority", 1) >= 3 (line 372): None >= 3 is a TypeError.
LoopPriorityCheck(rule) ==
    LET v == Get(rule, "priority", Some(1))
    IN  IF v = None THEN "raise"
        ELSE IF v[1] >= CriticalPriority THEN "true" ELSE "false"

\* rule["priority"] >= 3 (line 379): a missing key is a KeyError.
PriorityIsCritical(rule) ==
    IF "priority" \notin DOMAIN rule THEN "raise"
    ELSE IF rule.priority = None THEN "raise"
    ELSE IF rule.priority[1] >= CriticalPriority THEN "true" ELSE "false"

\* A variant of AnyCritical that looks only at the first rule with the id.
AnyCriticalFirstMatch(rules, rid, i) ==
    IF \E j \in i..Len(rules) : rules[j].id = rid
    THEN PriorityIsCritical(rules[CHOOSE j \in i..Len(rules) :
                                    /\ rules[j].id = rid
                                    /\ \A k \in i..(j - 1) : rules[k].id # rid])
    ELSE "false"

\* any(rule["priority"] >= 3 for rule in plan.rules if rule["id"] == rid),
\* from position i on: any() stops at the first true.
RECURSIVE AnyCritical(_, _, _)
AnyCritical(rules, rid, i) ==
    IF i > Len(rules) THEN "false"
    ELSE IF rules[i].id # rid THEN AnyCritical(rules, rid, i + 1)
    ELSE LET c == PriorityIsCritical(rules[i])
         IN  IF c = "false" THEN AnyCritical(rules, rid, i + 1) ELSE c

\* Lines 375-390: the overall status once the loop has ended.
DetermineOverallStatus(plan) ==
    LET failed_results == SelectSeq(plan.execution_results,
                                    LAMBDA r : r.status = FAILED)
        verdict == [k \in DOMAIN failed_results |->
                        AnyCritical(plan.rules, failed_results[k].rule_id, 1)]
    IN  IF failed_results = <<>> THEN COMPLETED
        ELSE IF \E k \in DOMAIN verdict : verdict[k] = "raise"
             THEN FAILED                                  \* except Exception
        ELSE IF \E k \in DOMAIN verdict : verdict[k] = "true"
             THEN FAILED
        ELSE COMPLETED                                    \* partial success

\* f"plan_{now:%Y%m%d_%H%M%S}_{len(history)}": the timestamp has a fixed
\* width and second resolution, so the string is determined by, and
\* determines, the pair (second, history length).
PlanId(t, n) == <<t, n>>

\* The ExecutionPlan object create_execution_plan returns.  pc and pos are
\* the position of the execute_plan invocation on the plan; calls logs the
\* executor calls it made and raised the positions of the rules whose
\* processing raised an exception; runs counts the execute_plan calls made
\* on the plan.
NewPlan(t, n, rules) ==
    [plan_id |-> PlanId(t, n), rules |-> rules, execution_results |-> <<>>,
     overall_status |-> PENDING, start_time |-> None, end_time |-> None,
     pc |-> "created", pos |-> 0, calls |-> <<>>, raised |-> {}, runs |-> 0]

\* datetime.now() moves on.
Tick ==
    /\ now < MaxClock
    /\ now' = now + 1
    /\ UNCHANGED <<plans, execution_history>>
    /\ UNCHANGED agentVars
    /\ UNCHANGED hostVars
    /\ UNCHANGED serviceVars

\* create_execution_plan(scenario, rules, context)
CreateExecutionPlan(rules) ==
    /\ plans' = Append(plans, NewPlan(now, Len(execution_history), rules))
    /\ UNCHANGED <<now, execution_history>>
    /\ UNCHANGED agentVars
    /\ UNCHANGED hostVars
    /\ UNCHANGED serviceVars

\* execute_plan, lines 360-363, called on a plan that create_execution_plan
\* has just returned.
ExecutePlanBegin(p) ==
    /\ plans[p].pc = "created"
    /\ plans' = [plans EXCEPT ![p].start_time = Some(now),
                              ![p].overall_status = RUNNING,
                              ![p].pc = "loop",
                              ![p].pos = 1,
                              ![p].runs = 1]
    /\ UNCHANGED <<now, execution_history>>
    /\ UNCHANGED agentVars
    /\ UNCHANGED hostVars
    /\ UNCHANGED serviceVars

\* execute_plan, lines 360-363, called again on a plan that an earlier
\* execute_plan call has returned: nothing in execute_plan looks at the
\* plan's status, and execution_results is not cleared.
ExecutePlanAgain(p) ==
    /\ plans[p].pc = "returned"
    /\ plans[p].runs < MaxRuns
    /\ plans' = [plans EXCEPT ![p].start_time = Some(now),
                              ![p].overall_status = RUNNING,
                              ![p].pc = "loop",
                              ![p].pos = 1,
                              ![p].runs = @ + 1]
    /\ UNCHANGED <<now, execution_history>>
    /\ UNCHANGED agentVars
    /\ UNCHANGED hostVars
    /\ UNCHANGED serviceVars

\* except Exception (lines 388-390) and finally (lines 392-394), then return.
Aborted(plan, t) ==
    [plan EXCEPT !.overall_status = FAILED, !.end_time = Some(t),
                 !.pc = "returned"]

\* One iteration of "for rule in plan.rules" (lines 367-373).
ExecuteRule(p, b) ==
    /\ plans[p].pc = "loop"
    /\ plans[p].pos <= Len(plans[p].rules)
    /\ LET plan == plans[p]
           i    == plan.pos
           rule == plan.rules[i]
           r    == ExecuteSingleRule(rule, i, b, now)
       IN  IF r.raised
           THEN /\ plans' = [plans EXCEPT ![p] =
                                Aborted([plan EXCEPT !.raised = @ \cup {i}], now)]
                /\ execution_history' = Append(execution_history, p)
           ELSE LET q == [plan EXCEPT
                            !.execution_results = Append(@, r.result),
                            !.calls = @ \o r.calls,
                            !.raised = IF b.validate = "raise"
                                          \/ (b.validate = "true" /\ b.execute = "raise")
                                       THEN @ \cup {i} ELSE @]
                IN  IF r.result.status = FAILED /\ LoopPriorityCheck(rule) = "raise"
                    THEN /\ plans' = [plans EXCEPT ![p] =
                                        Aborted([q EXCEPT !.raised = @ \cup {i}], now)]
                         /\ execution_history' = Append(execution_history, p)
                    ELSE /\ plans' = [plans EXCEPT ![p] = [q EXCEPT !.pos = i + 1]]
                         /\ UNCHANGED execution_history
    /\ UNCHANGED now
    /\ UNCHANGED agentVars
    /\ UNCHANGED hostVars
    /\ UNCHANGED serviceVars

\* One iteration of the loop on an engine built with the default executor
\* (BusinessRuleExecutionEngine()), for a plan with an empty context.
ExecuteRuleByDefault(p) ==
    /\ plans[p].pc = "loop"
    /\ plans[p].pos <= Len(plans[p].rules)
    /\ ExecuteRule(p, DefaultBehaviour(plans[p].rules[plans[p].pos],
                                       "dict_empty", now))

\* Lines 375-394 after the loop: the overall status, end_time, the history.
ExecutePlanFinish(p) ==
    /\ plans[p].pc = "loop"
    /\ plans[p].pos > Len(plans[p].rules)
    /\ plans' = [plans EXCEPT ![p].overall_status = DetermineOverallStatus(plans[p]),
                              ![p].end_time = Some(now),
                              ![p].pc = "returned"]
    /\ execution_history' = Append(execution_history, p)
    /\ UNCHANGED now
    /\ UNCHANGED agentVars
    /\ UNCHANGED hostVars
    /\ UNCHANGED serviceVars

\* ExecutionResult.duration (lines 41-45), in whole seconds.
Duration(result) ==
    IF result.start_time # None /\ result.end_time # None
    THEN Some(result.end_time[1] - result.start_time[1])
    ELSE None

\* The number of results with the given status.
CountStatus(results, status) ==
    Cardinality({k \in DOMAIN results : results[k].status = status})

\* One entry of "results" in the summary (lines 460-467).
ResultSummary(result) ==
    [rule_id |-> result.rule_id, rule_name |-> result.rule_name,
     status |-> result.status, duration |-> Duration(result),
     output |-> result.output, error |-> result.error_message]

\* A variant of ExecutionSummary that measures execution_time up to the
\* moment of the call.
ExecutionSummaryByClock(plan) ==
    [plan_id |-> plan.plan_id,
     overall_status |-> plan.overall_status,
     total_rules |-> Len(plan.rules),
     successful_rules |-> CountStatus(plan.execution_results, COMPLETED),
     failed_rules |-> CountStatus(plan.execution_results, FAILED),
     execution_time |->
        IF plan.start_time # None THEN Some(now - plan.start_time[1]) ELSE None,
     results |-> [k \in DOMAIN plan.execution_results |->
                    ResultSummary(plan.execution_results[k])]]

\* The mapping get_execution_summary returns (lines 448-470).
ExecutionSummary(plan) ==
    [plan_id |-> plan.plan_id,
     overall_status |-> plan.overall_status,
     total_rules |-> Len(plan.rules),
     successful_rules |-> CountStatus(plan.execution_results, COMPLETED),
     failed_rules |-> CountStatus(plan.execution_results, FAILED),
     execution_time |->
        IF plan.end_time # None /\ plan.start_time # None
        THEN Some(plan.end_time[1] - plan.start_time[1]) ELSE None,
     results |-> [k \in DOMAIN plan.execution_results |->
                    ResultSummary(plan.execution_results[k])]]

\* No read-only call has been made yet.
NoQuery ==
    [op |-> "none", n |-> 0, plan |-> 0, limit |-> 0, offset |-> 0,
     raised |-> FALSE, out |-> <<>>, seen |-> <<>>, again |-> FALSE,
     agrees |-> FALSE]

\* get_execution_summary(plan): the caller gets the summary.  seen is the
\* plan object as it was during the call; again says that the call before
\* was a summary of the same plan in the same condition, and agrees that it
\* returned the same summary.
GetExecutionSummary(p) ==
    /\ query.n < MaxQueries
    /\ query' = [op |-> "summary", n |-> query.n + 1, plan |-> p,
                 limit |-> 0, offset |-> 0, raised |-> FALSE,
                 out |-> <<ExecutionSummary(plans[p])>>, seen |-> <<plans[p]>>,
                 again |-> (/\ query.op = "summary" /\ query.plan = p
                            /\ query.seen = <<plans[p]>>),
                 agrees |-> (query.out = <<ExecutionSummary(plans[p])>>)]
    /\ UNCHANGED <<initialized, svc>>
    /\ UNCHANGED engineVars
    /\ UNCHANGED agentVars
    /\ UNCHANGED hostVars

\* BusinessRuleExecutionEngine.get_execution_history: the summary of every
\* entry of the history, in the history's order.
EngineExecutionHistory ==
    [i \in DOMAIN execution_history |-> ExecutionSummary(plans[execution_history[i]])]

\* A variant of PySlice that starts one entry late.
PySliceFromOne(s, lo, hi) ==
    LET stop == IF hi < Len(s) THEN hi ELSE Len(s)
        n    == IF stop > lo + 1 THEN stop - lo - 1 ELSE 0
    IN  [i \in 1..n |-> s[lo + 1 + i]]

\* The Python slice s[lo:hi] for lo, hi >= 0: the entries at the 0-based
\* positions lo .. min(hi, len(s)) - 1.
PySlice(s, lo, hi) ==
    LET stop == IF hi < Len(s) THEN hi ELSE Len(s)
        n    == IF stop > lo THEN stop - lo ELSE 0
    IN  [i \in 1..n |-> s[lo + i]]

\* AgenticSystemService.get_execution_history(limit, offset): RuntimeError
\* when the service is not initialized, else history[offset:offset + limit].
GetExecutionHistory(limit, offset) ==
    /\ query.op = "none"
    /\ query' = [op |-> "history", n |-> query.n + 1, plan |-> 0,
                 limit |-> limit, offset |-> offset,
                 raised |-> ~ initialized,
                 out |-> IF initialized
                         THEN PySlice(EngineExecutionHistory, offset, offset + limit)
                         ELSE <<>>,
                 seen |-> <<>>, again |-> FALSE, agrees |-> FALSE]
    /\ UNCHANGED <<initialized, svc>>
    /\ UNCHANGED engineVars
    /\ UNCHANGED agentVars
    /\ UNCHANGED hostVars

\* Action names a caller may pass that are not in the registry.
UnregisteredActions == {"unknown_action", "Approve_Basic_Review", ""}

\* A caller is about to call DefaultActionExecutor.execute with the given
\* arguments.
ExecuteCall(action, parameters, context) ==
    [op |-> "execute", n |-> 0, action |-> action, parameters |-> parameters,
     context |-> context, out |-> <<>>]

\* DefaultActionExecutor.execute(action, parameters, context) is called and
\* returns.
CallExecute ==
    /\ query.op = "execute"
    /\ query.n = 0
    /\ query' = [query EXCEPT
                    !.n = 1,
                    !.out = <<DefaultExecute(query.action, query.parameters,
                                             query.context, now)>>]
    /\ UNCHANGED <<initialized, svc>>
    /\ UNCHANGED engineVars
    /\ UNCHANGED agentVars
    /\ UNCHANGED hostVars

\* The caller of get_execution_history has consumed the page it was given.
ReturnPage ==
    /\ query.op = "history"
    /\ query' = NoQuery
    /\ UNCHANGED <<initialized, svc>>
    /\ UNCHANGED engineVars
    /\ UNCHANGED agentVars
    /\ UNCHANGED hostVars

(***************************************************************************)
(* The decision pipeline: business_rule_agent.py.                          *)
(***************************************************************************)
\* BusinessRuleAgent.__init__: confidence_threshold = 0.7, in percent.
confidence_threshold == 70

\* self.confidence_threshold * 0.8 (line 137), in percent.
RelaxedThreshold == (confidence_threshold * 8) \div 10

\* The ids the collaborators may name.  r1 and r2 are in the catalog; r3 is
\* indexed by the retriever but absent from the catalog.
RuleIds    == {"r1", "r2", "r3"}
CatalogIds == {"r1", "r2"}

\* The BusinessRule the catalog holds for an id.
CatalogRule(id) ==
    [id |-> id,
     name |-> IF id = "r1" THEN "Basic loan review" ELSE "Manual review",
     action |-> IF id = "r1" THEN "approve_basic_review" ELSE "require_manual_review",
     priority |-> IF id = "r1" THEN Some(1) ELSE Some(3)]

\* A variant of GetRuleById that falls back to the catalog's first rule for
\* an id the catalog does not hold.
GetRuleByIdOrFirst(id) ==
    IF id \in CatalogIds THEN Some(CatalogRule(id)) ELSE Some(CatalogRule("r1"))

\* rag_service.get_rule_by_id: the rule, or None.
GetRuleById(id) == IF id \in CatalogIds THEN Some(CatalogRule(id)) ELSE None

\* What the vector search may do: raise, or return scored hits.
SearchResult(id, score) == [rule_id |-> id, score |-> score]
RetrieverBehaviours ==
    {[raises |-> TRUE]}
        \cup {[raises |-> FALSE, hits |-> h] :
                h \in {<<>>,
                       <<SearchResult("r1", 90)>>,
                       <<SearchResult("r2", 50)>>,
                       <<SearchResult("r2", 90), SearchResult("r1", 60)>>,
                       <<SearchResult("r3", 60), SearchResult("r1", 50)>>}}

\* BusinessRulesRAG.query_rules: the hits at or above the threshold it is given.
QueryRules(hits, threshold) == SelectSeq(hits, LAMBDA r : r.score >= threshold)

\* _query_relevant_rules: any exception becomes the empty list.
QueryRelevantRulesResult(b) ==
    IF b.raises THEN <<>> ELSE QueryRules(b.hits, RelaxedThreshold)

\* What llm_service.analyze_scenario may do (together with the building of
\* rules_data before it): raise, report {"error": ...}, or return an
\* analysis whose applicable_rules name rule ids with confidences.  The
\* answer is the JSON the provider wrote, so a confidence is any number: one
\* reference carries 1.5.
AnalysisRefs ==
    {[rule_id |-> i, confidence |-> c] : i \in RuleIds, c \in {60, 70, 90}}
        \cup {[rule_id |-> "r1", confidence |-> 150]}
AnalysisBehaviours ==
    {[kind |-> "raise"], [kind |-> "error"]}
        \cup {[kind |-> "ok", applicable_rules |-> a] : a \in SeqUpTo(AnalysisRefs, MaxRefs)}

\* _analyze_with_llm, lines 205-211, for a provider that did not raise.
AnalyzeWithLLMResult(b) ==
    IF b.kind = "error"
    THEN [applicable_rules |-> <<>>, overall_assessment |-> "Analysis failed"]
    ELSE [applicable_rules |-> b.applicable_rules, overall_assessment |-> "assessed"]

\* What llm_service.reason_about_rules (and the merge after it) may do:
\* raise, report {"error": ...}, or return executable_rules.
ExecutableRefs ==
    {[rule_id |-> i, execution_order |-> o, condition_met |-> m] :
        i \in CatalogIds, o \in {1, 2}, m \in BOOLEAN}
ReasoningBehaviours ==
    {[kind |-> "raise"], [kind |-> "error"]}
        \cup {[kind |-> "ok", executable_rules |-> e] : e \in SeqUpTo(ExecutableRefs, MaxRefs)}

\* A variant of HighConfidenceRules that filters by the relaxed threshold.
HighConfidenceRulesRelaxed(applicable_rules) ==
    SelectSeq(applicable_rules, LAMBDA r : r.confidence >= RelaxedThreshold)

\* Lines 222-226: the references at or above the strict threshold.
HighConfidenceRules(applicable_rules) ==
    SelectSeq(applicable_rules, LAMBDA r : r.confidence >= confidence_threshold)

\* Lines 233-248: the catalog's rule for each reference, in order; a
\* reference whose id the catalog does not hold is left out.
RECURSIVE FullRules(_)
FullRules(refs) ==
    IF refs = <<>> THEN <<>>
    ELSE LET ref  == Head(refs)
             full == GetRuleById(ref.rule_id)
         IN  IF full = None THEN FullRules(Tail(refs))
             ELSE <<[id |-> full[1].id, name |-> full[1].name,
                     action |-> full[1].action, priority |-> full[1].priority,
                     confidence |-> ref.confidence]>> \o FullRules(Tail(refs))

\* next((r for r in full_rules if r["id"] == id), None): its position, or 0.
FirstWithId(full_rules, id) ==
    IF \E j \in DOMAIN full_rules : full_rules[j].id = id
    THEN CHOOSE j \in DOMAIN full_rules :
            /\ full_rules[j].id = id
            /\ \A k \in 1..(j - 1) : full_rules[k].id # id
    ELSE 0

\* full_rule.update({"execution_order": ..., "expected_outcome": ...})
UpdateRule(r, order) ==
    [id |-> r.id, name |-> r.name, action |-> r.action, priority |-> r.priority,
     confidence |-> r.confidence, execution_order |-> order]

\* Lines 256-269 from entry k on.  full_rules is updated in place and
\* final holds the positions in full_rules of the dicts appended to
\* final_rules (the same dict object may be appended twice).
RECURSIVE Merge(_, _, _, _)
Merge(executable, k, full_rules, final) ==
    IF k > Len(executable) THEN [full_rules |-> full_rules, final |-> final]
    ELSE LET e == executable[k]
             j == FirstWithId(full_rules, e.rule_id)
         IN  IF e.condition_met /\ j # 0
             THEN Merge(executable, k + 1,
                        [full_rules EXCEPT ![j] = UpdateRule(@, e.execution_order)],
                        Append(final, j))
             ELSE Merge(executable, k + 1, full_rules, final)

\* list.sort(key=...) is stable: x goes after every element whose key is
\* not greater.
RECURSIVE InsertByOrder(_, _)
InsertByOrder(sorted, x) ==
    IF sorted = <<>> THEN <<x>>
    ELSE IF Get(Head(sorted), "execution_order", 0) > Get(x, "execution_order", 0)
         THEN <<x>> \o sorted
         ELSE <<Head(sorted)>> \o InsertByOrder(Tail(sorted), x)

RECURSIVE SortByOrder(_)
SortByOrder(s) ==
    IF s = <<>> THEN <<>>
    ELSE InsertByOrder(SortByOrder(SubSeq(s, 1, Len(s) - 1)), s[Len(s)])

\* Lines 253-274: the final rules for the executable_rules the provider gave.
FinalRules(full_rules, executable) ==
    LET m == Merge(executable, 1, full_rules, <<>>)
    IN  SortByOrder([n \in DOMAIN m.final |-> m.full_rules[m.final[n]]])

\* reasoning_result.get("executable_rules", [])
ExecutableRulesOf(b) == IF b.kind = "ok" THEN b.executable_rules ELSE <<>>

\* sum(confidences)
RECURSIVE SumConfidence(_)
SumConfidence(rules) ==
    IF rules = <<>> THEN 0
    ELSE Get(Head(rules), "confidence", 0) + SumConfidence(Tail(rules))

\* Lines 306-311: the mean as the fraction num/den; 0.0 is 0/1.
OverallConfidence(rules) ==
    IF rules # <<>> THEN [num |-> SumConfidence(rules), den |-> Len(rules)]
    ELSE [num |-> 0, den |-> 1]

\* A variant of ExecutionPlanOf whose steps count from 0.
ExecutionPlanOfZeroBased(rules) ==
    [i \in DOMAIN rules |->
        [step |-> i - 1, rule_id |-> rules[i].id, rule_name |-> rules[i].name,
         action |-> rules[i].action]]

\* Lines 313-324.
ExecutionPlanOf(rules) ==
    [i \in DOMAIN rules |->
        [step |-> i, rule_id |-> rules[i].id, rule_name |-> rules[i].name,
         action |-> rules[i].action]]

\* _create_decision.  decision_outcome is its fixed first words and the
\* values formatted after them.
CreateDecisionOf(scenario, rules, analysis, expl) ==
    [scenario |-> scenario,
     applicable_rules |-> rules,
     decision_outcome |->
        IF rules # <<>>
        THEN [prefix |-> "Execute", detail |-> [i \in DOMAIN rules |-> rules[i].action]]
        ELSE [prefix |-> "No rules to execute", detail |-> <<>>],
     confidence |-> OverallConfidence(rules),
     reasoning |-> expl,
     execution_plan |-> ExecutionPlanOf(rules),
     metadata |-> [total_rules_considered |-> Len(analysis.applicable_rules),
                   rules_above_threshold |-> Len(rules),
                   overall_assessment |-> analysis.overall_assessment]]

\* _create_no_rules_decision
NoRulesDecision(scenario) ==
    [scenario |-> scenario,
     applicable_rules |-> <<>>,
     decision_outcome |-> [prefix |-> "No applicable business rules found",
                           detail |-> <<>>],
     confidence |-> [num |-> 0, den |-> 1],
     reasoning |-> "no rules",
     execution_plan |-> <<>>,
     metadata |-> [total_rules_considered |-> 0, rules_above_threshold |-> 0,
                   overall_assessment |-> "No rules found",
                   recommended_actions |-> <<"Review scenario description",
                                             "Check rule coverage",
                                             "Consider adding new rules">>]]

\* _create_error_decision
ErrorDecision(scenario, error_message) ==
    [scenario |-> scenario,
     applicable_rules |-> <<>>,
     decision_outcome |-> [prefix |-> "Analysis failed", detail |-> <<error_message>>],
     confidence |-> [num |-> 0, den |-> 1],
     reasoning |-> "error",
     execution_plan |-> <<>>,
     metadata |-> [total_rules_considered |-> 0, rules_above_threshold |-> 0,
                   overall_assessment |-> "Error occurred",
                   error |-> error_message,
                   recommended_actions |-> <<"Check system logs",
                                             "Verify system components">>]]

\* What the caller sees: nothing yet, a returned Decision (handler says
\* whether the except clause of analyze_scenario built it), or an exception.
NoResult            == [kind |-> "none"]
Returned(d, caught) == [kind |-> "returned", decision |-> d, handler |-> caught]
Raised              == [kind |-> "raised"]

NoAnalysis == [applicable_rules |-> <<>>, overall_assessment |-> ""]

\* The scenarios a caller may pass.
Scenarios == {"Customer wants a $5000 loan with credit score 680"}

\* A variant of HandleException that raises the exception again.
HandleExceptionReraise(error_message) ==
    /\ state' = "error"
    /\ call_result' = Raised
    /\ apc' = "done"
    /\ UNCHANGED <<current_scenario, iteration_count, decision_history>>

\* Lines 115-118: the except clause of analyze_scenario, then return.
HandleException(error_message) ==
    /\ state' = "error"
    /\ call_result' = Returned(ErrorDecision(current_scenario, error_message), TRUE)
    /\ apc' = "done"
    /\ UNCHANGED <<current_scenario, iteration_count, decision_history>>

\* analyze_scenario is entered: lines 71-74.
AnalyzeScenario(scenario) ==
    /\ apc = "idle"
    /\ state' = "analyzing"
    /\ current_scenario' = scenario
    /\ iteration_count' = 0
    /\ apc' = "query"
    /\ UNCHANGED <<decision_history, relevant_rules, analysis_result,
                   executable_rules, explanation, call_result>>
    /\ UNCHANGED engineVars
    /\ UNCHANGED serviceVars
    /\ UNCHANGED hostVars

\* A variant of QueryRelevantRules without the return on an empty result.
QueryRelevantRulesNoReturn(b) ==
    /\ apc = "query"
    /\ state' = "querying_rules"
    /\ relevant_rules' = QueryRelevantRulesResult(b)
    /\ apc' = "reason"
    /\ UNCHANGED <<current_scenario, iteration_count, decision_history,
                   analysis_result, executable_rules, explanation, call_result>>
    /\ UNCHANGED engineVars
    /\ UNCHANGED serviceVars
    /\ UNCHANGED hostVars

\* Step 1, lines 78-84: the retrieval, and the return when nothing was found.
QueryRelevantRules(b) ==
    /\ apc = "query"
    /\ LET results == QueryRelevantRulesResult(b)
       IN  /\ state' = "querying_rules"
           /\ relevant_rules' = results
           /\ IF results = <<>>
              THEN /\ call_result' = Returned(NoRulesDecision(current_scenario), FALSE)
                   /\ apc' = "done"
              ELSE /\ apc' = "reason"
                   /\ UNCHANGED call_result
    /\ UNCHANGED <<current_scenario, iteration_count, decision_history,
                   analysis_result, executable_rules, explanation>>
    /\ UNCHANGED engineVars
    /\ UNCHANGED serviceVars
    /\ UNCHANGED hostVars

\* Step 2, lines 87-90.
AnalyzeWithLLM(b) ==
    /\ apc = "reason"
    /\ IF b.kind = "raise"
       THEN /\ HandleException("analysis raised")
            /\ UNCHANGED analysis_result
       ELSE /\ state' = "reasoning"
            /\ analysis_result' = AnalyzeWithLLMResult(b)
            /\ apc' = "decide"
            /\ UNCHANGED <<current_scenario, iteration_count, decision_history,
                           call_result>>
    /\ UNCHANGED <<relevant_rules, executable_rules, explanation>>
    /\ UNCHANGED engineVars
    /\ UNCHANGED serviceVars
    /\ UNCHANGED hostVars

\* Step 3, lines 93-96: _determine_executable_rules.  The provider is asked
\* only when a reference passed the strict threshold.
DetermineExecutableRules(b) ==
    /\ apc = "decide"
    /\ LET high == HighConfidenceRules(analysis_result.applicable_rules)
       IN  IF high = <<>>
           THEN /\ state' = "deciding"
                /\ executable_rules' = <<>>
                /\ apc' = "explain"
                /\ UNCHANGED <<current_scenario, iteration_count,
                               decision_history, call_result>>
           ELSE IF b.kind = "raise"
           THEN /\ HandleException("reasoning raised")
                /\ UNCHANGED executable_rules
           ELSE /\ state' = "deciding"
                /\ executable_rules' = FinalRules(FullRules(high), ExecutableRulesOf(b))
                /\ apc' = "explain"
                /\ UNCHANGED <<current_scenario, iteration_count,
                               decision_history, call_result>>
    /\ UNCHANGED <<relevant_rules, analysis_result, explanation>>
    /\ UNCHANGED engineVars
    /\ UNCHANGED serviceVars
    /\ UNCHANGED hostVars

\* Step 4, lines 99-102: _generate_explanation.  The provider is asked only
\* when there are rules to explain.
GenerateExplanation(b) ==
    /\ apc = "explain"
    /\ IF executable_rules = <<>>
       THEN /\ state' = "explaining"
            /\ explanation' = "No applicable business rules were found for this scenario."
            /\ apc' = "create"
            /\ UNCHANGED <<current_scenario, iteration_count,
                           decision_history, call_result>>
       ELSE IF b = "raise"
       THEN /\ HandleException("explanation raised")
            /\ UNCHANGED explanation
       ELSE /\ state' = "explaining"
            /\ explanation' = b
            /\ apc' = "create"
            /\ UNCHANGED <<current_scenario, iteration_count,
                           decision_history, call_result>>
    /\ UNCHANGED <<relevant_rules, analysis_result, executable_rules>>
    /\ UNCHANGED engineVars
    /\ UNCHANGED serviceVars
    /\ UNCHANGED hostVars

\* Step 5, lines 105-113.
CreateDecision ==
    /\ apc = "create"
    /\ LET decision == CreateDecisionOf(current_scenario, executable_rules,
                                        analysis_result, explanation)
       IN  /\ decision_history' = Append(decision_history, decision)
           /\ call_result' = Returned(decision, FALSE)
    /\ state' = "completed"
    /\ apc' = "done"
    /\ UNCHANGED <<current_scenario, iteration_count, relevant_rules,
                   analysis_result, executable_rules, explanation>>
    /\ UNCHANGED engineVars
    /\ UNCHANGED serviceVars
    /\ UNCHANGED hostVars

(***************************************************************************)
(* The host service: api/services.py.                                      *)
(***************************************************************************)
\* No service operation has been called yet.  Of a call in progress svc
\* keeps the operation and its position, the scenario, the plan it created
\* (0: none), the number of analyses it started, the numbers of plans and of
\* history entries it found, and what it returns.
NoCall ==
    [op |-> "none", pc |-> "idle", scenario |-> "", plan |-> 0, analyses |-> 0,
     plans0 |-> 0, history0 |-> 0, analysis |-> <<>>, execution |-> <<>>]

\* The rule dicts a caller may hand to execute_rules.
ServiceRules ==
    {[id |-> "a", name |-> "n", action |-> "approve_basic_review", priority |-> Some(3)],
     [id |-> "b", name |-> "n", action |-> "unknown_action", priority |-> Some(1)],
     [id |-> "b", name |-> "n", action |-> "unknown_action", priority |-> None]}

\* The mapping the service builds from the agent's Decision (lines 122-130).
DecisionDict(d) ==
    [scenario |-> d.scenario, applicable_rules |-> d.applicable_rules,
     decision_outcome |-> d.decision_outcome, confidence |-> d.confidence,
     reasoning |-> d.reasoning, execution_plan |-> d.execution_plan,
     metadata |-> d.metadata]

\* A variant of SkippedExecution that reports a completed execution.
SkippedExecutionCompleted(scenario) ==
    [plan_id |-> "no_execution", scenario |-> scenario,
     overall_status |-> COMPLETED, total_rules |-> 0, successful_rules |-> 0,
     failed_rules |-> 0, execution_time |-> Some(0), results |-> <<>>,
     message |-> "No applicable rules found"]

\* The summary analyze_and_execute builds when there is nothing to execute
\* (lines 175-186).
SkippedExecution(scenario) ==
    [plan_id |-> "no_execution", scenario |-> scenario,
     overall_status |-> "skipped", total_rules |-> 0, successful_rules |-> 0,
     failed_rules |-> 0, execution_time |-> Some(0), results |-> <<>>,
     message |-> "No applicable rules found"]

\* AgenticSystemService.initialize: it succeeds or fails.  It builds a new
\* agent and a new engine; it is taken while the ones of the model are
\* still unused, so that the new ones are the ones of the model.
Initialize(ok) ==
    /\ ~ initialized
    /\ apc = "idle"
    /\ plans = <<>>
    /\ svc.pc \notin {"analysis", "execution"}
    /\ initialized' = ok
    /\ UNCHANGED <<svc, query>>
    /\ UNCHANGED agentVars
    /\ UNCHANGED hostVars
    /\ UNCHANGED engineVars

\* The service's analyze_scenario or analyze_and_execute is called: lines
\* 108-109 (reached from line 165 for analyze_and_execute), then the hand-off
\* of agent.analyze_scenario to the worker pool.
CallAnalyze(op, scenario) ==
    /\ svc.pc \in {"idle", "returned", "raised"}
    /\ IF ~ initialized
       THEN svc' = [NoCall EXCEPT !.op = op, !.pc = "raised", !.scenario = scenario]
       ELSE /\ apc = "idle"
            /\ svc' = [NoCall EXCEPT !.op = op, !.pc = "analysis",
                                     !.scenario = scenario, !.analyses = 1,
                                     !.plans0 = Len(plans),
                                     !.history0 = Len(execution_history)]
    /\ UNCHANGED <<initialized, query>>
    /\ UNCHANGED agentVars
    /\ UNCHANGED hostVars
    /\ UNCHANGED engineVars

\* agent.analyze_scenario has come back.  analyze_scenario returns the
\* mapping; analyze_and_execute goes on (lines 167-186): execute_rules, with
\* its own test of self.initialized and create_execution_plan, when the
\* analysis has applicable rules, else the "skipped" summary.
AnalysisReturned ==
    /\ svc.pc = "analysis"
    /\ apc = "done"
    /\ IF call_result.kind # "returned"
       THEN /\ svc' = [svc EXCEPT !.pc = "raised"]
            /\ UNCHANGED plans
       ELSE LET d == DecisionDict(call_result.decision)
            IN  IF svc.op = "analyze_scenario"
                THEN /\ svc' = [svc EXCEPT !.pc = "returned", !.analysis = <<d>>]
                     /\ UNCHANGED plans
                ELSE IF d.applicable_rules = <<>>
                THEN /\ svc' = [svc EXCEPT !.pc = "returned", !.analysis = <<d>>,
                                           !.execution = <<SkippedExecution(svc.scenario)>>]
                     /\ UNCHANGED plans
                ELSE IF ~ initialized
                THEN /\ svc' = [svc EXCEPT !.pc = "raised", !.analysis = <<d>>]
                     /\ UNCHANGED plans
                ELSE /\ plans' = Append(plans, NewPlan(now, Len(execution_history),
                                                       d.applicable_rules))
                     /\ svc' = [svc EXCEPT !.pc = "execution", !.analysis = <<d>>,
                                           !.plan = Len(plans) + 1]
    /\ UNCHANGED <<initialized, query, now, execution_history>>
    /\ UNCHANGED agentVars
    /\ UNCHANGED hostVars

\* The service's execute_rules is called: lines 139-143, then the hand-off
\* of execute_plan to the worker pool.
CallExecuteRules(scenario, rules) ==
    /\ svc.pc \in {"idle", "returned", "raised"}
    /\ IF ~ initialized
       THEN /\ svc' = [NoCall EXCEPT !.op = "execute_rules", !.pc = "raised",
                                     !.scenario = scenario]
            /\ UNCHANGED plans
       ELSE /\ plans' = Append(plans, NewPlan(now, Len(execution_history), rules))
            /\ svc' = [NoCall EXCEPT !.op = "execute_rules", !.pc = "execution",
                                     !.scenario = scenario,
                                     !.plan = Len(plans) + 1,
                                     !.plans0 = Len(plans),
                                     !.history0 = Len(execution_history)]
    /\ UNCHANGED <<initialized, query, now, execution_history>>
    /\ UNCHANGED agentVars
    /\ UNCHANGED hostVars

\* execute_plan has come back: execute_rules returns the plan's summary
\* (line 153), and so does analyze_and_execute (lines 188-192).
ExecutionReturned ==
    /\ svc.pc = "execution"
    /\ plans[svc.plan].pc = "returned"
    /\ svc' = [svc EXCEPT !.pc = "returned",
                          !.execution = <<ExecutionSummary(plans[svc.plan])>>]
    /\ UNCHANGED <<initialized, query>>
    /\ UNCHANGED agentVars
    /\ UNCHANGED hostVars
    /\ UNCHANGED engineVars

\* AgenticSystemService.cleanup
Cleanup ==
    /\ initialized
    /\ initialized' = FALSE
    /\ UNCHANGED <<svc, query>>
    /\ UNCHANGED agentVars
    /\ UNCHANGED hostVars
    /\ UNCHANGED engineVars

(***************************************************************************)
(* The rule catalog: business_rules/manager.py.                            *)
(***************************************************************************)
\* What a rule file may hold.  yaml.safe_load gives a mapping with the keys
\* domain and rules, or the file does not parse; a rule entry without a
\* required key (here "name") is a KeyError.
RuleFiles ==
    {[parses |-> TRUE, domain |-> "finance",
      rules |-> <<[id |-> "r1", name |-> "Basic loan review",
                   action |-> "approve_basic_review"],
                  [id |-> "r2", name |-> "Manual review",
                   action |-> "require_manual_review", priority |-> Some(3)]>>],
     [parses |-> TRUE, domain |-> "inventory",
      rules |-> <<[id |-> "r3", name |-> "Reorder",
                   action |-> "reorder_product", priority |-> Some(2)]>>],
     [parses |-> TRUE,
      rules |-> <<[id |-> "r4", action |-> "notify"]>>],
     [parses |-> FALSE]}

\* The directories of rule files: the directory is missing, or it holds up
\* to MaxFiles different files, in the order load_rules meets them.
Directories ==
    {[exists |-> FALSE, files |-> <<>>]}
        \cup {[exists |-> TRUE, files |-> f] :
                f \in {g \in SeqUpTo(RuleFiles, MaxFiles) :
                        \A i, j \in DOMAIN g : i # j => g[i] # g[j]}}

\* BusinessRule(...) for one entry of a file (lines 102-113); None when a
\* required key is missing (KeyError, lines 115-116).
BusinessRule(rule_data, domain) ==
    IF "id" \notin DOMAIN rule_data \/ "name" \notin DOMAIN rule_data
            \/ "action" \notin DOMAIN rule_data
    THEN None
    ELSE Some([id |-> rule_data.id, name |-> rule_data.name, domain |-> domain,
               action |-> rule_data.action,
               priority |-> Get(rule_data, "priority", Some(1))])

\* The loop of _load_rules_from_file (lines 100-118) from entry k on:
\* every rule it can build is appended to self.rules.
RECURSIVE AppendRules(_, _, _, _)
AppendRules(rules, rules_data, domain, k) ==
    IF k > Len(rules_data) THEN rules
    ELSE LET rule == BusinessRule(rules_data[k], domain)
         IN  AppendRules(IF rule = None THEN rules ELSE Append(rules, rule[1]),
                         rules_data, domain, k + 1)

\* _load_rules_from_file as load_rules calls it (lines 82-86): a file that
\* does not parse raises before any rule is appended, and the exception is
\* logged.
LoadRulesFromFile(rules, file) ==
    IF ~ file.parses THEN rules
    ELSE AppendRules(rules, file.rules, Get(file, "domain", "unknown"), 1)

\* The loop of load_rules over the files (lines 81-86), from file k on.
RECURSIVE LoadFiles(_, _, _)
LoadFiles(rules, files, k) ==
    IF k > Len(files) THEN rules
    ELSE LoadFiles(LoadRulesFromFile(rules, files[k]), files, k + 1)

\* _rules_by_id after _build_indices: the last rule of each id.
RulesById(rules) ==
    [id \in {rules[i].id : i \in DOMAIN rules} |->
        rules[CHOOSE i \in DOMAIN rules :
                /\ rules[i].id = id
                /\ \A j \in DOMAIN rules : rules[j].id = id => j <= i]]

\* _rules_by_domain after _build_indices: the rules of each domain, in order.
RulesByDomain(rules) ==
    [d \in {rules[i].domain : i \in DOMAIN rules} |->
        SelectSeq(rules, LAMBDA r : r.domain = d)]

\* BusinessRulesManager.__init__.  loads and loaded_from are history: the
\* number of load_rules calls made and the directory the last one read.
NewManager ==
    [rules |-> <<>>, rules_by_id |-> RulesById(<<>>),
     rules_by_domain |-> RulesByDomain(<<>>),
     loads |-> 0, loaded_from |-> [exists |-> FALSE, files |-> <<>>]]

\* load_rules (lines 73-89) on the manager m: nothing is done when the
\* directory is missing; else the rules of the files are appended to
\* self.rules and the indices are built again from self.rules.
LoadRulesOf(m, directory) ==
    IF ~ directory.exists
    THEN [m EXCEPT !.loads = @ + 1, !.loaded_from = directory]
    ELSE LET rules == LoadFiles(m.rules, directory.files, 1)
         IN  [rules |-> rules, rules_by_id |-> RulesById(rules),
              rules_by_domain |-> RulesByDomain(rules),
              loads |-> m.loads + 1, loaded_from |-> directory]

\* The rule files are edited while the manager is not loading.
EditRuleFiles(directory) ==
    /\ rule_files # directory
    /\ rule_files' = directory
    /\ UNCHANGED <<manager, parked>>
    /\ UNCHANGED agentVars
    /\ UNCHANGED engineVars
    /\ UNCHANGED serviceVars

\* BusinessRulesManager.load_rules, as BusinessRulesRAG.initialize and
\* reinitialize call it.
LoadRules ==
    /\ manager.loads < MaxLoads
    /\ manager' = LoadRulesOf(manager, rule_files)
    /\ UNCHANGED <<rule_files, parked>>
    /\ UNCHANGED agentVars
    /\ UNCHANGED engineVars
    /\ UNCHANGED serviceVars

(***************************************************************************)
(* The host's worker pool: api/services.py, run_in_executor.               *)
(***************************************************************************)
\* The locals of an analyze_scenario invocation that has not started.
NoInvocation ==
    [apc |-> "idle", relevant_rules |-> <<>>, analysis_result |-> NoAnalysis,
     executable_rules |-> <<>>, explanation |-> "", call_result |-> NoResult]

\* The locals of the invocation that is running.
RunningInvocation ==
    [apc |-> apc, relevant_rules |-> relevant_rules,
     analysis_result |-> analysis_result, executable_rules |-> executable_rules,
     explanation |-> explanation, call_result |-> call_result]

\* Two requests have handed agent.analyze_scenario of the one service to
\* the worker pool (lines 113-120): the pool's threads run them in any
\* interleaving.  The step lets the other invocation run: the locals change
\* places, the fields of the agent stay.
Switch ==
    /\ parked' = RunningInvocation
    /\ apc' = parked.apc
    /\ relevant_rules' = parked.relevant_rules
    /\ analysis_result' = parked.analysis_result
    /\ executable_rules' = parked.executable_rules
    /\ explanation' = parked.explanation
    /\ call_result' = parked.call_result
    /\ RunningInvocation # parked
    /\ UNCHANGED <<state, current_scenario, iteration_count, decision_history>>
    /\ UNCHANGED <<manager, rule_files>>
    /\ UNCHANGED engineVars
    /\ UNCHANGED serviceVars

(***************************************************************************)
(* Specifications.                                                         *)
(***************************************************************************)
\* AgenticSystemService.__init__: nothing is initialized, nothing was called.
ServiceInit ==
    /\ initialized = FALSE
    /\ svc = NoCall
    /\ query = NoQuery

\* A manager that has loaded nothing, a rules directory, and no second
\* invocation on the worker pool.
HostInit ==
    /\ manager = NewManager
    /\ rule_files \in Directories
    /\ parked = NoInvocation

\* The directory of the specifications that do not load rules.
NoDirectory ==
    rule_files = [exists |-> FALSE, files |-> <<>>]

\* BusinessRuleAgent.__init__ and no invocation yet.
AgentInit ==
    /\ state = "idle"
    /\ current_scenario = None
    /\ iteration_count = 0
    /\ decision_history = <<>>
    /\ apc = "idle"
    /\ relevant_rules = <<>>
    /\ analysis_result = NoAnalysis
    /\ executable_rules = <<>>
    /\ explanation = ""
    /\ call_result = NoResult

\* BusinessRuleExecutionEngine.__init__
EngineInit ==
    /\ now = 0
    /\ plans = <<>>
    /\ execution_history = <<>>

\* One analyze_scenario call on a fresh agent.
AgentSpecInit == AgentInit /\ EngineInit /\ ServiceInit /\ HostInit /\ NoDirectory

AgentNext ==
    \/ \E s \in Scenarios : AnalyzeScenario(s)
    \/ \E b \in RetrieverBehaviours : QueryRelevantRules(b)
    \/ \E b \in AnalysisBehaviours : AnalyzeWithLLM(b)
    \/ \E b \in ReasoningBehaviours : DetermineExecutableRules(b)
    \/ \E b \in {"raise", "explained"} : GenerateExplanation(b)
    \/ CreateDecision

AgentSpec == AgentSpecInit /\ [][AgentNext]_vars

\* One plan of up to MaxRules rules, created on a fresh engine and executed
\* by an arbitrary ActionExecutor.
PlanInit ==
    /\ AgentInit
    /\ HostInit
    /\ NoDirectory
    /\ ServiceInit
    /\ now = 0
    /\ execution_history = <<>>
    /\ \E rules \in SeqUpTo(RichRules, MaxRules) : plans = <<NewPlan(0, 0, rules)>>

PlanNext ==
    \/ \E p \in DOMAIN plans : ExecutePlanBegin(p)
    \/ \E p \in DOMAIN plans : \E b \in ExecutorBehaviours : ExecuteRule(p, b)
    \/ \E p \in DOMAIN plans : ExecuteRuleByDefault(p)
    \/ \E p \in DOMAIN plans : ExecutePlanFinish(p)

PlanSpec == PlanInit /\ [][PlanNext]_vars

\* One engine on which up to MaxPlans plans are created and executed, the
\* executions running concurrently on the host's worker pool.
EngineSpecInit == AgentInit /\ EngineInit /\ ServiceInit /\ HostInit /\ NoDirectory

EngineNext ==
    \/ Tick
    \/ \E rules \in SeqUpTo(SimpleRules, 1) :
            Len(plans) < MaxPlans /\ CreateExecutionPlan(rules)
    \/ \E p \in DOMAIN plans : ExecutePlanBegin(p)
    \/ \E p \in DOMAIN plans : \E b \in SimpleBehaviours : ExecuteRule(p, b)
    \/ \E p \in DOMAIN plans : ExecutePlanFinish(p)

EngineSpec == EngineSpecInit /\ [][EngineNext]_vars

\* The engine of an initialized service, within one clock second: plans are
\* of one rule are created and executed one at a time, an executed plan may
\* be handed to execute_plan again, and pages of the history are read in
\* between, one call at a time.
HistoryInit ==
    /\ AgentInit
    /\ HostInit
    /\ NoDirectory
    /\ EngineInit
    /\ initialized = TRUE
    /\ svc = NoCall
    /\ query = NoQuery

HistoryNext ==
    \/ query.op = "none" /\ Cleanup
    \/ \E rules \in [1..1 -> SimpleRules] :
            /\ query.op = "none"
            /\ Len(plans) < MaxPlans
            /\ \A q \in DOMAIN plans : plans[q].pc = "returned"
            /\ CreateExecutionPlan(rules)
    \/ \E p \in DOMAIN plans :
            /\ query.op = "none"
            /\ Len(execution_history) < MaxExecutions
            /\ ExecutePlanBegin(p)
    \/ \E p \in DOMAIN plans :
            /\ query.op = "none"
            /\ Len(execution_history) < MaxExecutions
            /\ ExecutePlanAgain(p)
    \/ \E p \in DOMAIN plans : \E b \in SimpleBehaviours :
            query.op = "none" /\ ExecuteRule(p, b)
    \/ \E p \in DOMAIN plans : query.op = "none" /\ ExecutePlanFinish(p)
    \/ \E limit \in 0..MaxPlans, offset \in 0..MaxPlans :
            GetExecutionHistory(limit, offset)
    \/ ReturnPage

HistorySpec == HistoryInit /\ [][HistoryNext]_vars

\* A service from its construction on, within one clock second: it is
\* initialized and cleaned up and its operations are called one at a time,
\* one of them reaching the agent or the engine.  agent.analyze_scenario
\* and execute_plan run on the worker pool, on an engine with the default
\* executor; a cleanup that comes in while they run is taken when they have
\* ended (neither of them reads self.initialized).
ServiceSpecInit == AgentInit /\ EngineInit /\ ServiceInit /\ HostInit /\ NoDirectory

\* The providers of the service specification: the analysis names rules of
\* the catalog, below or above the threshold, and the reasoning provider
\* finds every condition met.
ServiceAnalysisBehaviours ==
    {b \in AnalysisBehaviours :
        b.kind = "ok" =>
            \A i \in DOMAIN b.applicable_rules :
                /\ b.applicable_rules[i].rule_id \in CatalogIds
                /\ b.applicable_rules[i].confidence \in {60, 90}}
ServiceReasoningBehaviours ==
    {b \in ReasoningBehaviours :
        b.kind = "ok" =>
            \A i \in DOMAIN b.executable_rules : b.executable_rules[i].condition_met}

ServiceNext ==
    \/ \E ok \in BOOLEAN : Initialize(ok)
    \/ /\ svc.pc = "analysis" => apc = "done"
       /\ svc.pc = "execution" => plans[svc.plan].pc = "returned"
       /\ Cleanup
    \/ \E op \in {"analyze_scenario", "analyze_and_execute"}, s \in Scenarios :
            plans = <<>> /\ CallAnalyze(op, s)
    \/ svc.pc = "analysis" /\ AnalyzeScenario(svc.scenario)
    \/ \E b \in RetrieverBehaviours : svc.pc = "analysis" /\ QueryRelevantRules(b)
    \/ \E b \in ServiceAnalysisBehaviours :
            svc.pc = "analysis" /\ AnalyzeWithLLM(b)
    \/ \E b \in ServiceReasoningBehaviours :
            svc.pc = "analysis" /\ DetermineExecutableRules(b)
    \/ \E b \in {"raise", "explained"} :
            svc.pc = "analysis" /\ GenerateExplanation(b)
    \/ svc.pc = "analysis" /\ CreateDecision
    \/ AnalysisReturned
    \/ \E s \in Scenarios, rules \in SeqUpTo(ServiceRules, MaxRules) :
            plans = <<>> /\ apc = "idle" /\ CallExecuteRules(s, rules)
    \/ svc.pc = "execution" /\ ExecutePlanBegin(svc.plan)
    \/ svc.pc = "execution" /\ ExecuteRuleByDefault(svc.plan)
    \/ svc.pc = "execution" /\ ExecutePlanFinish(svc.plan)
    \/ ExecutionReturned

ServiceSpec == ServiceSpecInit /\ [][ServiceNext]_vars

\* One call of DefaultActionExecutor.execute, for every action name of the
\* registry and some names outside it, and every kind of parameters and
\* context.
ExecutorInit ==
    /\ AgentInit
    /\ HostInit
    /\ NoDirectory
    /\ EngineInit
    /\ initialized = FALSE
    /\ svc = NoCall
    /\ \E action \in {SupportedActions[i] : i \in DOMAIN SupportedActions}
                        \cup UnregisteredActions,
          parameters \in ArgumentValues, context \in ArgumentValues :
            query = ExecuteCall(action, parameters, context)

ExecutorNext ==
    \/ Tick
    \/ CallExecute

ExecutorSpec == ExecutorInit /\ [][ExecutorNext]_vars

\* One plan of one rule on a fresh engine: it is executed, possibly more
\* than once, and its summary is read at any moment.
SummaryInit ==
    /\ AgentInit
    /\ HostInit
    /\ NoDirectory
    /\ ServiceInit
    /\ now = 0
    /\ execution_history = <<>>
    /\ \E rules \in SeqUpTo(SimpleRules, 1) : plans = <<NewPlan(0, 0, rules)>>

SummaryNext ==
    \/ Tick
    \/ \E p \in DOMAIN plans : ExecutePlanBegin(p)
    \/ \E p \in DOMAIN plans : ExecutePlanAgain(p)
    \/ \E p \in DOMAIN plans : \E b \in SimpleBehaviours : ExecuteRule(p, b)
    \/ \E p \in DOMAIN plans : ExecutePlanFinish(p)
    \/ \E p \in DOMAIN plans : GetExecutionSummary(p)

SummarySpec == SummaryInit /\ [][SummaryNext]_vars

\* One manager and its rules directory: the files are edited and load_rules
\* is called, up to MaxLoads times.
CatalogInit == AgentInit /\ EngineInit /\ ServiceInit /\ HostInit

CatalogNext ==
    \/ \E directory \in Directories : EditRuleFiles(directory)
    \/ LoadRules

CatalogSpec == CatalogInit /\ [][CatalogNext]_vars

\* Two analyze_scenario invocations on the agent of one service, run by the
\* threads of the worker pool in any interleaving.  The collaborators find
\* rule r1 or nothing, or fail.
PoolInit == AgentInit /\ EngineInit /\ ServiceInit /\ HostInit /\ NoDirectory

PoolRetrieverBehaviours ==
    {b \in RetrieverBehaviours :
        ~ b.raises => b.hits \in {<<>>, <<SearchResult("r1", 90)>>}}
PoolAnalysisBehaviours ==
    {b \in AnalysisBehaviours :
        b.kind = "ok" =>
            b.applicable_rules = <<[rule_id |-> "r1", confidence |-> 90]>>}
PoolReasoningBehaviours ==
    {b \in ReasoningBehaviours :
        b.kind = "ok" =>
            b.executable_rules = <<[rule_id |-> "r1", execution_order |-> 1,
                                    condition_met |-> TRUE]>>}

PoolNext ==
    \/ \E s \in Scenarios : AnalyzeScenario(s)
    \/ \E b \in PoolRetrieverBehaviours : QueryRelevantRules(b)
    \/ \E b \in PoolAnalysisBehaviours : AnalyzeWithLLM(b)
    \/ \E b \in PoolReasoningBehaviours : DetermineExecutableRules(b)
    \/ \E b \in {"raise", "explained"} : GenerateExplanation(b)
    \/ CreateDecision
    \/ Switch

PoolSpec == PoolInit /\ [][PoolNext]_vars

(***************************************************************************)
(* Claims about the decision pipeline (checked under AgentSpec).           *)
(***************************************************************************)
\* The Decisions the agent has handed out or recorded.
Decisions ==
    {decision_history[i] : i \in DOMAIN decision_history}
        \cup (IF call_result.kind = "returned" THEN {call_result.decision} ELSE {})

IsAnalysisFailed(d) == d.decision_outcome.prefix = "Analysis failed"

\* C1: analyze_scenario never raises to its caller: whatever the retriever,
\* the catalog and the reasoning provider do, a finished call has returned a
\* Decision; and the Decision returned when analyze_scenario captured a
\* failure has a decision_outcome starting with "Analysis failed",
\* confidence 0.0 and empty applicable_rules and execution_plan.
C1_NeverRaises ==
    apc = "done" =>
        /\ call_result.kind = "returned"
        /\ call_result.handler =>
              LET d == call_result.decision
              IN  /\ IsAnalysisFailed(d)
                  /\ d.confidence.num = 0
                  /\ d.applicable_rules = <<>>
                  /\ d.execution_plan = <<>>

\* A provider raised in the explanation stage, after rules had been accepted,
\* and the call returned the error Decision.
C1_Witness ==
    /\ apc = "done"
    /\ call_result.kind = "returned"
    /\ call_result.handler
    /\ executable_rules # <<>>
    /\ IsAnalysisFailed(call_result.decision)

\* C2: every rule in the applicable_rules of a Decision has a confidence at
\* or above the strict confidence_threshold; no rule whose confidence lies
\* between the relaxed retrieval threshold and the strict one is in it.
C2_StrictThreshold ==
    \A d \in Decisions :
        \A i \in DOMAIN d.applicable_rules :
            /\ d.applicable_rules[i].confidence >= confidence_threshold
            /\ ~ (/\ d.applicable_rules[i].confidence >= RelaxedThreshold
                  /\ d.applicable_rules[i].confidence < confidence_threshold)

\* The provider reported one rule exactly at the strict threshold and one
\* between the two thresholds; the Decision holds the first only.
C2_Witness ==
    /\ apc = "done"
    /\ call_result.kind = "returned"
    /\ Len(call_result.decision.applicable_rules) = 1
    /\ call_result.decision.applicable_rules[1].confidence = confidence_threshold
    /\ \E i \in DOMAIN analysis_result.applicable_rules :
          LET c == analysis_result.applicable_rules[i].confidence
          IN  /\ c >= RelaxedThreshold
              /\ c < confidence_threshold
              /\ analysis_result.applicable_rules[i].rule_id \in CatalogIds
              /\ analysis_result.applicable_rules[i].rule_id
                    # call_result.decision.applicable_rules[1].id

\* C3: when the retrieval gives zero candidates, the call returns the "no
\* rules found" Decision: no applicable rules, an empty plan, confidence
\* 0.0, the fixed recommended actions, and not an "Analysis failed" one.
C3_NoCandidates ==
    (apc = "done" /\ relevant_rules = <<>>) =>
        /\ call_result.kind = "returned"
        /\ LET d == call_result.decision
           IN  /\ d.applicable_rules = <<>>
               /\ d.execution_plan = <<>>
               /\ d.confidence.num = 0
               /\ d.decision_outcome.prefix = "No applicable business rules found"
               /\ d.metadata.recommended_actions =
                    <<"Review scenario description", "Check rule coverage",
                      "Consider adding new rules">>
               /\ ~ IsAnalysisFailed(d)

\* A call ended after a retrieval that gave no candidate.
C3_Witness ==
    /\ apc = "done"
    /\ relevant_rules = <<>>
    /\ call_result.kind = "returned"
    /\ state = "querying_rules"

\* C4: in every Decision, execution_plan has one step per applicable rule,
\* the steps are numbered 1, 2, ..., n in order, and step i carries the id,
\* the name and the action of applicable_rules[i].
C4_PlanMatchesRules ==
    \A d \in Decisions :
        /\ Len(d.execution_plan) = Len(d.applicable_rules)
        /\ \A i \in DOMAIN d.execution_plan :
              /\ d.execution_plan[i].step = i
              /\ d.execution_plan[i].rule_id = d.applicable_rules[i].id
              /\ d.execution_plan[i].rule_name = d.applicable_rules[i].name
              /\ d.execution_plan[i].action = d.applicable_rules[i].action

\* A Decision with two different rules, and so a plan of two steps.
C4_Witness ==
    /\ call_result.kind = "returned"
    /\ Len(call_result.decision.applicable_rules) = 2
    /\ call_result.decision.applicable_rules[1].id
          # call_result.decision.applicable_rules[2].id
    /\ Len(call_result.decision.execution_plan) = 2

\* C19: every Decision returned by analyze_scenario has a confidence in
\* [0,1]: the arithmetic mean of the confidences of its applicable_rules,
\* and 0.0 when there is none, whatever confidences the provider reported.
C19_ConfidenceInUnitInterval ==
    \A d \in Decisions :
        /\ d.confidence.den > 0
        /\ d.confidence.num >= 0
        /\ d.confidence.num <= 100 * d.confidence.den
        /\ d.applicable_rules = <<>> => d.confidence.num = 0
        /\ d.applicable_rules # <<>> =>
              /\ d.confidence.den = Len(d.applicable_rules)
              /\ d.confidence.num = SumConfidence(d.applicable_rules)

(***************************************************************************)
(* Claims about one plan's execution (checked under PlanSpec).             *)
(***************************************************************************)
\* The rule has a priority value, and it is at or above the critical one.
IsCritical(rule) ==
    /\ "priority" \in DOMAIN rule
    /\ rule.priority # None
    /\ rule.priority[1] >= CriticalPriority

\* The rule carries an id, a name and an integer priority.
WellFormed(rule) ==
    /\ {"id", "name", "priority"} \subseteq DOMAIN rule
    /\ rule.priority # None

\* A rule with a priority >= 3 has a FAILED result in the plan.
CriticalRuleFailed(plan) ==
    \E k \in DOMAIN plan.execution_results :
        /\ plan.execution_results[k].status = FAILED
        /\ IsCritical(plan.rules[plan.execution_results[k].idx])

\* C5: after execute_plan has returned, overall_status is FAILED only if a
\* rule with priority >= 3 has a FAILED result, and COMPLETED otherwise
\* (stated here for the plans whose rules all carry an id, a name and an
\* integer priority, rules sharing an id included).
C5_FailedOnlyIfCriticalFailed ==
    \A p \in DOMAIN plans :
        (/\ plans[p].pc = "returned"
         /\ \A i \in DOMAIN plans[p].rules : WellFormed(plans[p].rules[i])) =>
            /\ plans[p].overall_status = FAILED => CriticalRuleFailed(plans[p])
            /\ ~ CriticalRuleFailed(plans[p]) => plans[p].overall_status = COMPLETED

\* C6: if a rule with priority >= 3 ends with a FAILED result, the
\* overall_status after execute_plan is FAILED, wherever the rule stands in
\* the plan and whatever the other rules did.
C6_CriticalFailureDominates ==
    \A p \in DOMAIN plans :
        (plans[p].pc = "returned" /\ CriticalRuleFailed(plans[p])) =>
            plans[p].overall_status = FAILED

\* A plan [A(priority 1), B(priority 3)] in which A completed and B failed.
C6_Witness ==
    \E p \in DOMAIN plans :
        /\ plans[p].pc = "returned"
        /\ Len(plans[p].rules) = 2
        /\ Len(plans[p].execution_results) = 2
        /\ Get(plans[p].rules[1], "priority", None) = Some(1)
        /\ Get(plans[p].rules[2], "priority", None) = Some(3)
        /\ plans[p].execution_results[1].status = COMPLETED
        /\ plans[p].execution_results[2].status = FAILED
        /\ plans[p].overall_status = FAILED

\* The positions of the rules for which ActionExecutor.execute was called,
\* in call order.
RECURSIVE ExecutedPositions(_)
ExecutedPositions(calls) ==
    IF calls = <<>> THEN <<>>
    ELSE (IF Head(calls).op = "execute" THEN <<Head(calls).rule>> ELSE <<>>)
            \o ExecutedPositions(Tail(calls))

\* C7: execute_plan processes plan.rules one after another in list order:
\* the executor is invoked at most once per rule and in increasing position,
\* and when execute_plan has returned the results hold exactly one result
\* per rule, results[i] being the result of rules[i].
C7_SequentialInOrder ==
    \A p \in DOMAIN plans :
        LET plan == plans[p]
            ex   == ExecutedPositions(plan.calls)
        IN  /\ \A m, n \in DOMAIN ex : m < n => ex[m] < ex[n]
            /\ plan.pc = "returned" =>
                  /\ Len(plan.execution_results) = Len(plan.rules)
                  /\ \A i \in DOMAIN plan.execution_results :
                        /\ plan.execution_results[i].idx = i
                        /\ plan.execution_results[i].rule_id = plan.rules[i].id

\* C8: a failure while handling one rule never aborts the plan: if the
\* processing of rule i raised an exception, rule i has a FAILED result
\* whose error_message is the exception's text, and every rule of the plan
\* has been executed and has its own result.
C8_RuleFailureNeverAborts ==
    \A p \in DOMAIN plans :
        plans[p].pc = "returned" =>
            \A i \in plans[p].raised :
                /\ i <= Len(plans[p].execution_results)
                /\ plans[p].execution_results[i].status = FAILED
                /\ plans[p].execution_results[i].error_message
                      \in {Some("validate raised"), Some("execute raised")}
                /\ Len(plans[p].execution_results) = Len(plans[p].rules)

\* C9: when validate_parameters returns false for a rule, the rule's result
\* is FAILED with error_message "Parameter validation failed", execute is
\* never invoked for that rule, and the rules after it are still processed
\* (stated here for the plans whose rules all carry an id and a name).
C9_ValidationFailure ==
    \A p \in DOMAIN plans :
        (/\ plans[p].pc = "returned"
         /\ \A i \in DOMAIN plans[p].rules :
                {"id", "name"} \subseteq DOMAIN plans[p].rules[i]) =>
            \A c \in DOMAIN plans[p].calls :
                LET call == plans[p].calls[c]
                IN  (call.op = "validate" /\ call.outcome = "false") =>
                        /\ call.rule <= Len(plans[p].execution_results)
                        /\ plans[p].execution_results[call.rule].status = FAILED
                        /\ plans[p].execution_results[call.rule].error_message
                              = Some("Parameter validation failed")
                        /\ \A c2 \in DOMAIN plans[p].calls :
                              ~ (/\ plans[p].calls[c2].op = "execute"
                                 /\ plans[p].calls[c2].rule = call.rule)
                        /\ Len(plans[p].execution_results) = Len(plans[p].rules)

(***************************************************************************)
(* Claims about the engine and its plans (checked under EngineSpec).       *)
(***************************************************************************)
\* C10: any two plans created by create_execution_plan on one engine have
\* different plan_ids, for every interleaving of create_execution_plan and
\* execute_plan calls.
C10_PlanIdsUnique ==
    \A p, q \in DOMAIN plans :
        p # q => plans[p].plan_id # plans[q].plan_id

(***************************************************************************)
(* Claims about re-execution, the history and the summaries (checked       *)
(* under HistorySpec and SummarySpec).                                     *)
(***************************************************************************)
\* C11: in every reachable state every plan has at most as many execution
\* results as rules, also after execute_plan was called again on a plan
\* that had already been executed.
C11_ResultsWithinRules ==
    \A p \in DOMAIN plans :
        Len(plans[p].execution_results) <= Len(plans[p].rules)

\* The plans the history refers to.
InHistory(p) == \E i \in DOMAIN execution_history : execution_history[i] = p

\* The moves of overall_status that PENDING -> RUNNING -> {COMPLETED, FAILED}
\* allows.
StatusMoves ==
    {<<PENDING, RUNNING>>, <<RUNNING, COMPLETED>>, <<RUNNING, FAILED>>}

\* C12: a plan's overall_status only moves PENDING -> RUNNING ->
\* {COMPLETED, FAILED}, and once a plan is terminal and in the history no
\* step changes its overall_status, its results or its start and end times.
C12_TerminalPlansImmutable ==
    [][\A p \in DOMAIN plans :
          /\ plans'[p].overall_status # plans[p].overall_status =>
                <<plans[p].overall_status, plans'[p].overall_status>> \in StatusMoves
          /\ (plans[p].pc = "returned" /\ InHistory(p)) =>
                /\ plans'[p].overall_status = plans[p].overall_status
                /\ plans'[p].execution_results = plans[p].execution_results
                /\ plans'[p].start_time = plans[p].start_time
                /\ plans'[p].end_time = plans[p].end_time]_vars

\* The smaller of two numbers.
Min(a, b) == IF a < b THEN a ELSE b

\* C13: the history is append-only and in insertion order: a step changes
\* it only by appending one plan at the end, it does so exactly when an
\* execute_plan call returns (COMPLETED or FAILED), and the appended plan is
\* the executed one; get_execution_history(limit, offset), when it returns,
\* returns the summaries of entries offset .. offset + limit - 1 of that
\* order (fewer if the history is shorter), oldest first.
C13_HistoryAppendOnly ==
    [][/\ \/ execution_history' = execution_history
          \/ \E p \in DOMAIN plans :
                /\ execution_history' = Append(execution_history, p)
                /\ plans[p].pc = "loop"
                /\ plans'[p].pc = "returned"
                /\ plans'[p].overall_status \in {COMPLETED, FAILED}
       /\ \A p \in DOMAIN plans :
             (plans[p].pc = "loop" /\ plans'[p].pc = "returned") =>
                execution_history' = Append(execution_history, p)
       /\ (query'.n = query.n + 1 /\ query'.op = "history" /\ ~ query'.raised) =>
             LET h == execution_history
                 k == query'.offset
                 m == query'.limit
             IN  /\ Len(query'.out) = Min(m, IF Len(h) > k THEN Len(h) - k ELSE 0)
                 /\ \A i \in DOMAIN query'.out :
                       query'.out[i] = ExecutionSummary(plans[h[k + i]])]_vars

\* A page that starts after the first entry of a history holding a FAILED
\* and a COMPLETED execution was read, and it holds the second entry.
C13_Witness ==
    /\ query.op = "history"
    /\ ~ query.raised
    /\ query.offset = 1
    /\ query.limit = 2
    /\ Len(query.out) = 1
    /\ Len(execution_history) = 2
    /\ plans[execution_history[1]].overall_status = FAILED
    /\ plans[execution_history[2]].overall_status = COMPLETED
    /\ query.out[1].overall_status = COMPLETED

\* C14: the history is bounded: however many execute_plan calls are made,
\* it holds at most N plans for a fixed N; here N is any number below the
\* MaxExecutions calls that are made on the engine.
C14_HistoryBounded ==
    Len(execution_history) < MaxExecutions

\* C15: get_execution_summary is a pure projection: a call changes neither
\* a plan nor the history, and two calls in a row on the same terminal plan
\* return identical summaries.
C15_SummaryIsPure ==
    [][(query'.n = query.n + 1 /\ query'.op = "summary") =>
          /\ plans' = plans
          /\ execution_history' = execution_history
          /\ (/\ query.op = "summary"
              /\ query.plan = query'.plan
              /\ query.seen = <<plans[query'.plan]>>
              /\ plans[query'.plan].pc = "returned") =>
                query'.out = query.out]_vars

\* The summary of one executed plan was taken twice, at different moments,
\* and the two summaries are the same.
C15_Witness ==
    /\ query.op = "summary"
    /\ query.again
    /\ query.agrees
    /\ query.seen[1].pc = "returned"
    /\ query.seen[1].end_time # Some(now)
    /\ query.seen[1].execution_results # <<>>
    /\ query.out[1].total_rules = 1

ReturnedCalls(plan) ==
    {c \in DOMAIN plan.calls :
        plan.calls[c].op = "execute" /\ plan.calls[c].outcome # "raise"}

C16_PureComposition ==
    (svc.op = "analyze_and_execute" /\ svc.pc = "returned") =>
        LET d == svc.analysis[1]
            e == svc.execution[1]
        IN  /\ svc.analyses = 1
            /\ call_result.kind = "returned"
            /\ d.applicable_rules = call_result.decision.applicable_rules
            /\ d.decision_outcome = call_result.decision.decision_outcome
            /\ d.applicable_rules # <<>> <=> svc.plan # 0
            /\ d.applicable_rules # <<>> =>
                  /\ Len(plans) = svc.plans0 + 1
                  /\ svc.plan = Len(plans)
                  /\ plans[svc.plan].rules = d.applicable_rules
                  /\ Len(plans[svc.plan].execution_results) = Len(d.applicable_rules)
                  /\ \A i \in DOMAIN d.applicable_rules :
                        /\ plans[svc.plan].execution_results[i].rule_id
                              = d.applicable_rules[i].id
                        /\ e.results[i].rule_id = d.applicable_rules[i].id
                  /\ e.total_rules = Len(d.applicable_rules)
                  /\ e.overall_status = plans[svc.plan].overall_status
                  /\ e.overall_status # "skipped"
            /\ d.applicable_rules = <<>> =>
                  /\ e.overall_status = "skipped"
                  /\ e.total_rules = 0
                  /\ e.successful_rules = 0
                  /\ e.failed_rules = 0
                  /\ e.results = <<>>
                  /\ Len(plans) = svc.plans0
                  /\ Len(execution_history) = svc.history0

\* analyze_and_execute returned after executing the two different rules of
\* its analysis, in the analysis's order.
C16_Witness ==
    /\ svc.op = "analyze_and_execute"
    /\ svc.pc = "returned"
    /\ Len(svc.analysis[1].applicable_rules) = 2
    /\ svc.analysis[1].applicable_rules[1].id = "r2"
    /\ svc.analysis[1].applicable_rules[2].id = "r1"
    /\ svc.execution[1].total_rules = 2
    /\ svc.execution[1].successful_rules = 2
    /\ svc.execution[1].results[1].rule_id = "r2"
    /\ Len(execution_history) = 1

\* analyze_and_execute returned the "skipped" summary for an "Analysis
\* failed" Decision.
SkippedSummaryReturned ==
    /\ svc.op = "analyze_and_execute"
    /\ svc.pc = "returned"
    /\ IsAnalysisFailed(svc.analysis[1])
    /\ svc.execution[1].overall_status = "skipped"

\* C20: analyze_scenario, execute_rules and analyze_and_execute of the
\* service never raise an exception, in every state of the service, before
\* initialize has succeeded and after cleanup included.
C20_ServiceNeverRaises ==
    svc.pc # "raised"

(***************************************************************************)
(* Further claims about the decision pipeline (checked under AgentSpec).   *)
(***************************************************************************)
\* The error texts of the Decisions the except clause of analyze_scenario
\* builds when a call of the reasoning provider raised.
ProviderFailures ==
    {"analysis raised", "reasoning raised", "explanation raised"}

\* C21: every collaborator call is isolated: when the retrieval, the
\* provider's analysis, its order reasoning or its explanation fails (it
\* raises or reports an error), only that stage degrades to an empty result,
\* and the Decision returned is never an "Analysis failed" Decision because
\* of that failure.
C21_CallsIsolated ==
    call_result.kind = "returned" =>
        ~ (/\ IsAnalysisFailed(call_result.decision)
           /\ call_result.decision.metadata.error \in ProviderFailures)

\* The ids of the candidates the retriever returned to the call.
RetrievedIds == {relevant_rules[k].rule_id : k \in DOMAIN relevant_rules}

\* The position of a retrieved id in the retriever's answer.
RetrievalPosition(id) ==
    CHOOSE k \in DOMAIN relevant_rules : relevant_rules[k].rule_id = id

\* C25: the applicable_rules of a Decision are sorted by execution_order
\* ascending, and two rules with the same execution_order stand in the order
\* in which the retriever returned them, not in the order in which the
\* reasoning provider listed them.
C25_OrderedByExecutionOrder ==
    \A d \in Decisions :
        \A i, j \in DOMAIN d.applicable_rules :
            i < j =>
                LET a == d.applicable_rules[i]
                    b == d.applicable_rules[j]
                IN  /\ a.execution_order <= b.execution_order
                    /\ (/\ a.execution_order = b.execution_order
                        /\ a.id # b.id
                        /\ {a.id, b.id} \subseteq RetrievedIds)
                          => RetrievalPosition(a.id) < RetrievalPosition(b.id)

\* C28: every rule in a Decision's applicable_rules is one of the candidates
\* the retriever returned for the same call; a rule id the reasoning
\* provider reports that was not retrieved never reaches the Decision, even
\* when the catalog holds it and its confidence is above the threshold.
C28_OnlyRetrievedRules ==
    call_result.kind = "returned" =>
        \A i \in DOMAIN call_result.decision.applicable_rules :
            call_result.decision.applicable_rules[i].id \in RetrievedIds

\* C29: a Decision's applicable_rules never holds the same rule id twice,
\* whatever the reasoning provider returns, and so the number of accepted
\* rules in its metadata (rules_above_threshold) is at most the number
\* considered (total_rules_considered).
C29_NoDuplicateRules ==
    call_result.kind = "returned" =>
        LET d == call_result.decision
        IN  /\ \A i, j \in DOMAIN d.applicable_rules :
                  i # j => d.applicable_rules[i].id # d.applicable_rules[j].id
            /\ d.metadata.rules_above_threshold
                  <= d.metadata.total_rules_considered

\* The references of an analysis that passed the strict threshold and name
\* a rule of the catalog.
ResolvableRefs(analysis) ==
    SelectSeq(HighConfidenceRules(analysis.applicable_rules),
              LAMBDA ref : ref.rule_id \in CatalogIds)

\* C26: a rule that passed the strict threshold but whose id the catalog
\* does not hold is dropped silently: it is in no Decision (neither in
\* applicable_rules nor in execution_plan), every rule the call accepts is
\* the catalog's rule for a reference that passed the threshold, with that
\* reference's confidence, and an "Analysis failed" Decision never comes
\* from the lookup (only from a provider call).
C26_MissingRuleDropped ==
    /\ \A i \in DOMAIN executable_rules :
          LET r == executable_rules[i]
          IN  /\ r.id \in CatalogIds
              /\ r.name = CatalogRule(r.id).name
              /\ r.action = CatalogRule(r.id).action
              /\ \E k \in DOMAIN ResolvableRefs(analysis_result) :
                    /\ ResolvableRefs(analysis_result)[k].rule_id = r.id
                    /\ ResolvableRefs(analysis_result)[k].confidence = r.confidence
    /\ call_result.kind = "returned" =>
          LET d == call_result.decision
          IN  /\ \A i \in DOMAIN d.applicable_rules :
                    d.applicable_rules[i].id \in CatalogIds
              /\ \A i \in DOMAIN d.execution_plan :
                    d.execution_plan[i].rule_id \in CatalogIds
              /\ IsAnalysisFailed(d) => d.metadata.error \in ProviderFailures
              /\ ~ call_result.handler => d.applicable_rules = executable_rules

\* The analysis named r3, which the catalog does not hold, and r1, both
\* above the threshold, and the call returned a Decision with r1 alone.
C26_Witness ==
    /\ apc = "done"
    /\ call_result.kind = "returned"
    /\ ~ call_result.handler
    /\ \E i, j \in DOMAIN analysis_result.applicable_rules :
          /\ analysis_result.applicable_rules[i].rule_id = "r3"
          /\ analysis_result.applicable_rules[i].confidence >= confidence_threshold
          /\ analysis_result.applicable_rules[j].rule_id = "r1"
          /\ analysis_result.applicable_rules[j].confidence >= confidence_threshold
    /\ Len(call_result.decision.applicable_rules) = 1
    /\ call_result.decision.applicable_rules[1].id = "r1"
    /\ call_result.decision.execution_plan[1].rule_id = "r1"

(***************************************************************************)
(* A further claim about one plan's execution (checked under PlanSpec).    *)
(***************************************************************************)
\* C27: every ExecutionResult in a plan's results has a terminal status
\* (COMPLETED or FAILED, never PENDING or RUNNING) and an end_time that is
\* set and not before its start_time, so that its duration is defined:
\* after a success, a failure the executor reported, a failed validation
\* and a raised exception alike.
C27_ResultsAreTerminal ==
    \A p \in DOMAIN plans :
        \A i \in DOMAIN plans[p].execution_results :
            LET r == plans[p].execution_results[i]
            IN  /\ r.status \in {COMPLETED, FAILED}
                /\ r.start_time # None
                /\ r.end_time # None
                /\ r.end_time[1] >= r.start_time[1]
                /\ Duration(r) # None
                /\ Duration(r)[1] >= 0

\* A plan whose first rule failed its validation and whose second rule made
\* the executor raise has returned with both results.
C27_Witness ==
    \E p \in DOMAIN plans :
        /\ plans[p].pc = "returned"
        /\ Len(plans[p].execution_results) = 2
        /\ plans[p].execution_results[1].error_message
              = Some("Parameter validation failed")
        /\ plans[p].execution_results[2].error_message = Some("execute raised")
        /\ plans[p].execution_results[1].end_time # None
        /\ plans[p].execution_results[2].end_time # None

(***************************************************************************)
(* Claims about the rule catalog (checked under CatalogSpec).              *)
(***************************************************************************)
\* The ids of the rules a directory defines: the entries of its files that
\* parse and have the required keys.
DefinedIds(directory) ==
    {directory.files[f].rules[k].id :
        <<f, k>> \in {fk \in (DOMAIN directory.files) \X (1..MaxRules) :
                        /\ directory.files[fk[1]].parses
                        /\ fk[2] \in DOMAIN directory.files[fk[1]].rules
                        /\ {"id", "name", "action"} \subseteq
                              DOMAIN directory.files[fk[1]].rules[fk[2]]}}

\* C22: a reload replaces the whole rule set: after load_rules (the first or
\* a later call) the catalog holds exactly the rules the files defined at
\* that load, each once, the id index has exactly their ids and the domain
\* index lists each of them once under its domain; rules of an earlier load
\* do not accumulate.
C22_ReloadReplaces ==
    (manager.loads > 0 /\ manager.loaded_from.exists) =>
        /\ {manager.rules[i].id : i \in DOMAIN manager.rules}
              = DefinedIds(manager.loaded_from)
        /\ \A i, j \in DOMAIN manager.rules :
              i # j => manager.rules[i].id # manager.rules[j].id
        /\ DOMAIN manager.rules_by_id = DefinedIds(manager.loaded_from)
        /\ \A d \in DOMAIN manager.rules_by_domain :
              LET listed == manager.rules_by_domain[d]
              IN  /\ \A i \in DOMAIN listed : listed[i].domain = d
                  /\ \A i, j \in DOMAIN listed :
                        i # j => listed[i].id # listed[j].id

(***************************************************************************)
(* Claims about the agent's history and state (checked under AgentSpec).   *)
(***************************************************************************)
\* C23: every analyze_scenario call creates exactly one Decision and appends
\* it to the agent's decision history, whichever path the call took (rules
\* found, no candidates, analysis failed): before the call of the
\* specification returns the history is empty, and once it has returned the
\* history holds the returned Decision and nothing else.
C23_OneDecisionPerCall ==
    /\ apc # "done" => decision_history = <<>>
    /\ apc = "done" =>
          /\ call_result.kind = "returned"
          /\ decision_history = <<call_result.decision>>

\* The steps self.state may take: the pipeline's order, ERROR from any step,
\* and a new call from any state.
StateSteps ==
    {<<"idle", "analyzing">>, <<"analyzing", "querying_rules">>,
     <<"querying_rules", "reasoning">>, <<"reasoning", "deciding">>,
     <<"deciding", "explaining">>, <<"explaining", "completed">>}
        \cup {<<s, "error">> : s \in {"analyzing", "querying_rules", "reasoning",
                                      "deciding", "explaining"}}

\* C30: the agent's state follows IDLE, ANALYZING, QUERYING_RULES, REASONING,
\* DECIDING, EXPLAINING, COMPLETED, with ERROR reachable from any step, and
\* when analyze_scenario has returned the state is terminal: ERROR for an
\* "Analysis failed" Decision and COMPLETED for any other; no call returns
\* with the agent in an intermediate state.
C30_StateIsTerminalOnReturn ==
    [][/\ state' # state => <<state, state'>> \in StateSteps
       /\ (apc' = "done" /\ call_result'.kind = "returned") =>
             state' = IF IsAnalysisFailed(call_result'.decision)
                      THEN "error" ELSE "completed"]_vars

(***************************************************************************)
(* Claims about concurrent invocations (checked under PoolSpec).           *)
(***************************************************************************)
\* The value an invocation of analyze_scenario wrote last into self.state,
\* by its position (lines 72, 78, 87, 93, 99).
StateWrittenAt ==
    [query |-> "analyzing", reason |-> "querying_rules", decide |-> "reasoning",
     explain |-> "deciding", create |-> "explaining"]

\* C24: of the invocations the worker pool runs concurrently on one service,
\* none writes agent state that another one also writes or reads: every
\* invocation under way finds in self.state the value it wrote there last.
C24_NoSharedAgentState ==
    \A inv \in {RunningInvocation, parked} :
        inv.apc \in DOMAIN StateWrittenAt => state = StateWrittenAt[inv.apc]

====
